---- MODULE Spec2Model ----
(***************************************************************************)
(* The CHIP-8 interpreter of danmrichards/chip8 (internal/chip8): the      *)
(* machine state, Load, Cycle with its two-level opcode dispatch, the      *)
(* 60 Hz timer gate, and the draw / beep channels with their consumer      *)
(* (internal/event Handler.Handle).                                        *)
(***************************************************************************)
EXTENDS Integers, Sequences, FiniteSets, TLC

(***************************************************************************)
(* Program constants.                                                      *)
(***************************************************************************)
\* len(v.mem): the 4K address space.
MemSize == 4096
\* Programs are loaded at, and pc starts at, 0x200.
ProgStart == 512
\* len(v.disp) = 64 * 32.
DispSize == 2048
\* Width of a display row in draw's index arithmetic.
DispWidth == 64
\* len(v.stack).
StackSize == 16
\* len(v.keys): the hex keypad 0x0-0xF.
NumKeys == 16
\* Number of font bytes reset copies into mem.
FontLen == 80

(***************************************************************************)
(* Bounds of the model.                                                    *)
(***************************************************************************)
\* Cycle is called at most this many times in a behaviour.
MaxCycles == 7
\* reset is called at most this many times on a VM that is in use.
MaxResets == 1

(***************************************************************************)
(* Fixed-width arithmetic and the bit operations of the handlers.          *)
(***************************************************************************)
\* uint16 arithmetic wraps modulo 2^16.
U16(x) == (x + 65536) % 65536

\* byte arithmetic wraps modulo 2^8.
U8(x) == (x + 256) % 256

(***************************************************************************)
(* The two large arrays, mem ([4096]byte) and disp ([2048]byte), are held  *)
(* as the function from the indices of their non-zero bytes to those       *)
(* bytes: every index of the array outside the function's domain holds 0.  *)
(* Two arrays are equal exactly when these functions are equal.  An index  *)
(* at or beyond the array's length is never looked up here: the operators  *)
(* that index test it first, since there the program panics.               *)
(***************************************************************************)
\* arr[a]
At(arr, a) == IF a \in DOMAIN arr THEN arr[a] ELSE 0

\* arr with arr[a] = b
Put(arr, a, b) ==
    IF b = 0
    THEN [ x \in DOMAIN arr \ {a} |-> arr[x] ]
    ELSE [ x \in DOMAIN arr \cup {a} |-> IF x = a THEN b ELSE arr[x] ]

\* The array that holds F(a) at every index a of S and 0 elsewhere.
Arr(S, F(_)) == [ a \in { x \in S : F(x) # 0 } |-> F(a) ]

RECURSIVE AndBits(_, _, _)
AndBits(a, b, n) ==
    IF n = 0 THEN 0
    ELSE ((a % 2) * (b % 2)) + 2 * AndBits(a \div 2, b \div 2, n - 1)

\* a & b on 8-bit operands.
And8(a, b) == AndBits(a, b, 8)

\* v.opc & 0xF000: the high nibble, in place.
OpFamily(o) == (o \div 4096) * 4096

\* (v.opc & 0x0F00) >> 8
OpX(o) == (o \div 256) % 16

\* (v.opc & 0x00F0) >> 4
OpY(o) == (o \div 16) % 16

\* v.opc & 0x00FF
OpNN(o) == o % 256

\* v.opc & 0x0FFF
OpNNN(o) == o % 4096

\* v.opc & 0x000F
OpN(o) == o % 16

\* v.opc & 0xFFFF
OpAll(o) == o % 65536

(***************************************************************************)
(* The font table copied to mem[0..80) by reset: 16 glyphs of 5 bytes.     *)
(***************************************************************************)
fontset ==
    << 240, 144, 144, 144, 240,
        32,  96,  32,  32, 112,
       240,  16, 240, 128, 240,
       240,  16, 240,  16, 240,
       144, 144, 240,  16,  16,
       240, 128, 240,  16, 240,
       240, 128, 240, 144, 240,
       240,  16,  32,  64,  64,
       240, 144, 240, 144, 240,
       240, 144, 240,  16, 240,
       240, 144, 240, 144, 144,
       224, 144, 224, 144, 224,
       240, 128, 128, 128, 240,
       224, 144, 144, 144, 224,
       240, 128, 240, 128, 240,
       240, 128, 240, 128, 128 >>

(***************************************************************************)
(* Machine state: the fields of VM.                                        *)
(***************************************************************************)
VARIABLES
    opc,         \* current opcode
    mem,         \* [4096]byte, as its non-zero bytes
    v,           \* [16]byte, V0..VF
    I,           \* index register (field i)
    pc,          \* program counter
    disp,        \* [64*32]byte, as its non-zero bytes
    delayTimer,
    soundTimer,
    stack,       \* [16]uint16
    sp,          \* stack pointer
    keys,        \* [16]byte
    clock,       \* ticks waiting in clock.C (a channel of capacity 1)
    cyc,         \* where the goroutine driving the VM is
    ret,         \* what the last Cycle returned
    loadRet,     \* what the last Load returned
    hnd,         \* where the goroutine running Handler.Handle is
    ncycles,     \* Cycle calls so far
    entry,       \* pc, and the two bytes at it, on entry to the current / last Cycle
    executed,    \* opcode handlers run by the current / last Cycle
    serviced,    \* updateTimers calls of the current / last Cycle
    timerDrop,   \* what updateTimers took off (delayTimer, soundTimer) in it
    drawsDone,   \* draw instructions that have returned
    drawsRecv,   \* receives on Draw()
    beepsRecv,   \* receives on Beep()
    beepsDue,    \* timer services that took soundTimer from 1 to 0
    rom,         \* the argument of the last Load: its bytes, and whether reading it failed
    loads,       \* Load calls so far
    delaySet,    \* the value n last written to delayTimer, and the timer
                 \* services since, counted up to n + 1
    polled,      \* the keys the window reported pressed at the latest poll
    resets,      \* reset calls on the constructed VM so far
    oddTarget,   \* TRUE once a jump or call to an odd address has been executed
    lastCall,    \* pc and sp at the last call, until a later return; else << >>
    lastDraw,    \* the draw executed last, if the last instruction was one: its
                 \* opcode and disp before it; else << >>
    soundSet,    \* << writes of soundTimer so far (FX18 executed, reset),
                 \*    beep signals the Handler received since the last one >>
    chip8        \* the machine of the earlier main package: c, its chip8
                 \* struct, and out, how the one call made on it ended

vmvars == << opc, mem, v, I, pc, disp, delayTimer, soundTimer, stack, sp, keys >>

vars == << opc, mem, v, I, pc, disp, delayTimer, soundTimer, stack, sp, keys,
           clock, cyc, ret, loadRet, hnd, ncycles, entry, executed, serviced,
           timerDrop, drawsDone, drawsRecv, beepsRecv, beepsDue, rom, loads,
           delaySet, polled, resets, oddTarget, lastCall, lastDraw,
                    soundSet, chip8 >>

\* The VM fields the opcode handlers read and write, as one value.
VM ==
    [ opc |-> opc, mem |-> mem, v |-> v, I |-> I, pc |-> pc, disp |-> disp,
      delayTimer |-> delayTimer, soundTimer |-> soundTimer, stack |-> stack,
      sp |-> sp, keys |-> keys ]

\* What an opcodeHandlerFunc leaves behind: the machine, the (uint16, error) it
\* returns, and how it ended: "ret" (returned), "panic" (a runtime panic: an
\* index out of range) or "send" (parked in the send on drawChan).
Res(m, val, err, out) == [ m |-> m, val |-> val, err |-> err, out |-> out ]

(***************************************************************************)
(* Opcode handlers.                                                        *)
(***************************************************************************)
\* clrDisp that steps over the instruction before it returns its error.
clrDispStepping(m) ==
    Res([m EXCEPT !.pc = U16(m.pc + 2)], OpNN(m.opc), "TODO: clrDisp", "ret")

clrDisp(m) == Res(m, OpNN(m.opc), "TODO: clrDisp", "ret")

\* subRet that returns to the call itself, without the + 2.
subRetToCallSite(m) ==
    IF m.sp >= StackSize
    THEN Res(m, 0, "", "panic")
    ELSE Res([m EXCEPT !.pc = m.stack[m.sp], !.sp = U16(m.sp - 1)],
             OpNN(m.opc), "", "ret")

subRet(m) ==
    IF m.sp >= StackSize
    THEN Res(m, 0, "", "panic")
    ELSE Res([m EXCEPT !.pc = U16(m.stack[m.sp] + 2), !.sp = U16(m.sp - 1)],
             OpNN(m.opc), "", "ret")

\* callSys that steps over the instruction before it reports the error.
callSysStepping(m) ==
    Res([m EXCEPT !.pc = U16(m.pc + 2)], OpFamily(m.opc), "TODO: callSys", "ret")

callSys(m) == Res(m, OpFamily(m.opc), "TODO: callSys", "ret")

handle0x0000(m) ==
    IF OpNN(m.opc) = 224 THEN clrDisp(m)
    ELSE IF OpNN(m.opc) = 238 THEN subRet(m)
    ELSE IF OpFamily(m.opc) = 0 THEN callSys(m)
    ELSE Res(m, m.opc, "unknown opcode [0x0000]", "ret")

jump(m) == Res([m EXCEPT !.pc = OpNNN(m.opc)], m.opc, "", "ret")

callSub(m) ==
    LET sp1 == U16(m.sp + 1)
    IN  IF sp1 >= StackSize
        THEN Res([m EXCEPT !.sp = sp1], 0, "", "panic")
        ELSE Res([m EXCEPT !.sp = sp1, !.stack[sp1] = m.pc, !.pc = OpNNN(m.opc)],
                 m.opc, "", "ret")

\* The skip that steps over 3 bytes instead of 4.
SkipByThree(m, cond) == [m EXCEPT !.pc = U16(m.pc + (IF cond THEN 3 ELSE 2))]

\* The skip instructions' pc update: 4 when the condition holds, else 2.
Skip(m, cond) == [m EXCEPT !.pc = U16(m.pc + (IF cond THEN 4 ELSE 2))]

skipVxNN(m) == Res(Skip(m, m.v[OpX(m.opc)] = OpNN(m.opc)), m.opc, "", "ret")

skipVxNotNN(m) == Res(Skip(m, m.v[OpX(m.opc)] # OpNN(m.opc)), m.opc, "", "ret")

setVx(m) ==
    Res([m EXCEPT !.v[OpX(m.opc)] = OpNN(m.opc), !.pc = U16(m.pc + 2)],
        m.opc, "", "ret")

\* incVx that reports the carry in VF, as the 8XY4 add does.
incVxCarry(m) ==
    Res([m EXCEPT !.v = [m.v EXCEPT ![15] = IF m.v[OpX(m.opc)] + OpNN(m.opc) > 255
                                            THEN 1 ELSE 0,
                                    ![OpX(m.opc)] = U8(m.v[OpX(m.opc)] + OpNN(m.opc))],
                  !.pc = U16(m.pc + 2)],
        m.opc, "", "ret")

incVx(m) ==
    Res([m EXCEPT !.v[OpX(m.opc)] = U8(m.v[OpX(m.opc)] + OpNN(m.opc)),
                  !.pc = U16(m.pc + 2)],
        m.opc, "", "ret")

setVxVy(m) ==
    Res([m EXCEPT !.v[OpX(m.opc)] = m.v[OpY(m.opc)], !.pc = U16(m.pc + 2)],
        OpAll(m.opc), "", "ret")

setVxAndVy(m) ==
    Res([m EXCEPT !.v[OpX(m.opc)] = And8(m.v[OpX(m.opc)], m.v[OpY(m.opc)]),
                  !.pc = U16(m.pc + 2)],
        OpAll(m.opc), "", "ret")

incVxVy(m) ==
    LET x  == OpX(m.opc)
        y  == OpY(m.opc)
        v1 == [m.v EXCEPT ![15] = IF m.v[y] > 255 - m.v[x] THEN 1 ELSE 0]
        v2 == [v1 EXCEPT ![x] = U8(v1[x] + v1[y])]
    IN  Res([m EXCEPT !.v = v2, !.pc = U16(m.pc + 2)],
            OpAll(m.opc), "", "ret")

decVxVy(m) ==
    LET x  == OpX(m.opc)
        y  == OpY(m.opc)
        v1 == [m.v EXCEPT ![15] = IF m.v[y] > m.v[x] THEN 0 ELSE 1]
        v2 == [v1 EXCEPT ![x] = U8(v1[x] - v1[y])]
    IN  Res([m EXCEPT !.v = v2, !.pc = U16(m.pc + 2)],
            OpAll(m.opc), "", "ret")

handle0x8000(m) ==
    CASE OpN(m.opc) = 0 -> setVxVy(m)
      [] OpN(m.opc) = 2 -> setVxAndVy(m)
      [] OpN(m.opc) = 4 -> incVxVy(m)
      [] OpN(m.opc) = 5 -> decVxVy(m)
      [] OTHER -> Res(m, OpAll(m.opc), "TODO: handle0x8000", "ret")

\* skipVxNotVy with the test of 5XY0: it skips when the registers are equal.
skipVxVy(m) ==
    Res(Skip(m, m.v[OpX(m.opc)] = m.v[OpY(m.opc)]), m.opc, "", "ret")

skipVxNotVy(m) ==
    Res(Skip(m, m.v[OpX(m.opc)] # m.v[OpY(m.opc)]), m.opc, "", "ret")

setAddress(m) ==
    Res([m EXCEPT !.I = OpNNN(m.opc), !.pc = U16(m.pc + 2)], m.opc, "", "ret")

\* r is the value of rand.Intn(256).
setVxRand(m, r) ==
    Res([m EXCEPT !.v[OpX(m.opc)] = And8(r, OpNN(m.opc)), !.pc = U16(m.pc + 2)],
        m.opc, "", "ret")

\* DrawRow that adds 1 to the cell instead of XORing it with 1.
RECURSIVE DrawRowAdd(_, _, _, _, _)
DrawRowAdd(d, vf, pixel, base, cX) ==
    IF cX >= 8 THEN [ disp |-> d, vf |-> vf, panic |-> FALSE ]
    ELSE IF And8(pixel, 128 \div (2 ^ cX)) = 0
         THEN DrawRowAdd(d, vf, pixel, base, cX + 1)
    ELSE LET index == U16(base + cX)
         IN  IF index >= DispSize
             THEN [ disp |-> d, vf |-> vf, panic |-> TRUE ]
             ELSE DrawRowAdd(Put(d, index, U8(At(d, index) + 1)),
                             IF At(d, index) = 1 THEN 1 ELSE vf,
                             pixel, base, cX + 1)

\* DrawRow that sets the cell to 1 instead of XORing it with 1.
RECURSIVE DrawRowSet(_, _, _, _, _)
DrawRowSet(d, vf, pixel, base, cX) ==
    IF cX >= 8 THEN [ disp |-> d, vf |-> vf, panic |-> FALSE ]
    ELSE IF And8(pixel, 128 \div (2 ^ cX)) = 0
         THEN DrawRowSet(d, vf, pixel, base, cX + 1)
    ELSE LET index == U16(base + cX)
         IN  IF index >= DispSize
             THEN [ disp |-> d, vf |-> vf, panic |-> TRUE ]
             ELSE DrawRowSet(Put(d, index, 1),
                             IF At(d, index) = 1 THEN 1 ELSE vf,
                             pixel, base, cX + 1)

\* DrawRow that reads the sprite row least significant bit first.
RECURSIVE DrawRowMirrored(_, _, _, _, _)
DrawRowMirrored(d, vf, pixel, base, cX) ==
    IF cX >= 8 THEN [ disp |-> d, vf |-> vf, panic |-> FALSE ]
    ELSE IF And8(pixel, 2 ^ cX) = 0
         THEN DrawRowMirrored(d, vf, pixel, base, cX + 1)
    ELSE LET index == U16(base + cX)
         IN  IF index >= DispSize
             THEN [ disp |-> d, vf |-> vf, panic |-> TRUE ]
             ELSE DrawRowMirrored(Put(d, index, IF At(d, index) % 2 = 0
                                                THEN At(d, index) + 1
                                                ELSE At(d, index) - 1),
                                  IF At(d, index) = 1 THEN 1 ELSE vf,
                                  pixel, base, cX + 1)

\* One row of draw's inner loop, from column cX on: d is disp so far, vf is
\* v[0xF] so far, base is x + (y + cY) * 64. An index outside disp panics.
RECURSIVE DrawRow(_, _, _, _, _)
DrawRow(d, vf, pixel, base, cX) ==
    IF cX >= 8 THEN [ disp |-> d, vf |-> vf, panic |-> FALSE ]
    ELSE IF And8(pixel, 128 \div (2 ^ cX)) = 0
         THEN DrawRow(d, vf, pixel, base, cX + 1)
    ELSE LET index == U16(base + cX)
         IN  IF index >= DispSize
             THEN [ disp |-> d, vf |-> vf, panic |-> TRUE ]
             ELSE DrawRow(Put(d, index, IF At(d, index) % 2 = 0
                                        THEN At(d, index) + 1
                                        ELSE At(d, index) - 1),
                          IF At(d, index) = 1 THEN 1 ELSE vf,
                          pixel, base, cX + 1)

\* draw's outer loop, from row cY on. Reading mem outside its 4096 bytes panics.
RECURSIVE DrawRows(_, _, _, _, _, _, _)
DrawRows(m, d, vf, x, y, height, cY) ==
    IF cY >= height THEN [ disp |-> d, vf |-> vf, panic |-> FALSE ]
    ELSE IF U16(m.I + cY) >= MemSize
         THEN [ disp |-> d, vf |-> vf, panic |-> TRUE ]
    ELSE LET row == DrawRow(d, vf, At(m.mem, U16(m.I + cY)),
                            U16(x + U16((y + cY) * DispWidth)), 0)
         IN  IF row.panic THEN row
             ELSE DrawRows(m, row.disp, row.vf, x, y, height, cY + 1)

\* draw without the send on drawChan: it blits, advances pc and returns.
drawNoSend(m) ==
    LET x == m.v[OpX(m.opc)]
        y == m.v[OpY(m.opc)]
        b == DrawRows(m, m.disp, 0, x, y, OpN(m.opc), 0)
        m1 == [m EXCEPT !.disp = b.disp, !.v[15] = b.vf, !.pc = U16(m.pc + 2)]
    IN  Res(m1, m.opc, "", IF b.panic THEN "panic" ELSE "ret")

\* draw up to its send on drawChan (line 366): the blit is done, pc is not yet
\* advanced.
draw(m) ==
    LET x == m.v[OpX(m.opc)]
        y == m.v[OpY(m.opc)]
        b == DrawRows(m, m.disp, 0, x, y, OpN(m.opc), 0)
        m1 == [m EXCEPT !.disp = b.disp, !.v[15] = b.vf]
    IN  Res(m1, m.opc, "", IF b.panic THEN "panic" ELSE "send")

\* draw after its send was received: v.pc += 2 and return.
drawAfterSend(m) == [m EXCEPT !.pc = U16(m.pc + 2)]

skipVxKeyNotPressed(m) ==
    LET k == m.v[OpX(m.opc)]
    IN  IF k >= NumKeys
        THEN Res(m, 0, "", "panic")
        ELSE Res(Skip(m, m.keys[k] = 0), OpAll(m.opc), "", "ret")

\* handle0xE000 whose default case skips the instruction and returns nil.
handle0xE000Silent(m) ==
    IF OpNN(m.opc) = 161 THEN skipVxKeyNotPressed(m)
    ELSE Res(Skip(m, FALSE), OpAll(m.opc), "", "ret")

handle0xE000(m) ==
    IF OpNN(m.opc) = 161 THEN skipVxKeyNotPressed(m)
    ELSE Res(m, OpAll(m.opc), "TODO: handle0xF000", "ret")

getDelayTimer(m) ==
    Res([m EXCEPT !.v[OpX(m.opc)] = m.delayTimer, !.pc = U16(m.pc + 2)],
        OpAll(m.opc), "", "ret")

setDelayTimer(m) ==
    Res([m EXCEPT !.delayTimer = m.v[OpX(m.opc)], !.pc = U16(m.pc + 2)],
        OpAll(m.opc), "", "ret")

setSoundTimer(m) ==
    Res([m EXCEPT !.soundTimer = m.v[OpX(m.opc)], !.pc = U16(m.pc + 2)],
        OpAll(m.opc), "", "ret")

loadFont(m) ==
    Res([m EXCEPT !.I = U16(m.v[OpX(m.opc)] * 5), !.pc = U16(m.pc + 2)],
        OpAll(m.opc), "", "ret")

\* setBCD with the tens and the ones digit in each other's place.
setBCDSwapped(m) ==
    LET x  == m.v[OpX(m.opc)]
    IN  IF U16(m.I + 2) >= MemSize \/ m.I >= MemSize - 2 THEN Res(m, 0, "", "panic")
        ELSE Res([m EXCEPT !.mem = Put(Put(Put(m.mem, m.I, x \div 100),
                                           m.I + 1, (x % 100) % 10),
                                       m.I + 2, (x \div 10) % 10),
                           !.pc = U16(m.pc + 2)],
                 OpAll(m.opc), "", "ret")

\* The three stores of setBCD happen in order; one outside mem panics and
\* leaves the earlier ones done.
setBCD(m) ==
    LET x  == m.v[OpX(m.opc)]
        a0 == m.I
        a1 == U16(m.I + 1)
        a2 == U16(m.I + 2)
    IN  IF a0 >= MemSize THEN Res(m, 0, "", "panic")
        ELSE IF a1 >= MemSize
             THEN Res([m EXCEPT !.mem = Put(m.mem, a0, x \div 100)], 0, "", "panic")
        ELSE IF a2 >= MemSize
             THEN Res([m EXCEPT !.mem = Put(Put(m.mem, a0, x \div 100),
                                            a1, (x \div 10) % 10)], 0, "", "panic")
        ELSE Res([m EXCEPT !.mem = Put(Put(Put(m.mem, a0, x \div 100),
                                           a1, (x \div 10) % 10),
                                       a2, (x % 100) % 10),
                           !.pc = U16(m.pc + 2)],
                 OpAll(m.opc), "", "ret")

\* regLoad's loop from register k on, over the registers w so far.
RECURSIVE RegLoadFrom(_, _, _)
RegLoadFrom(m, w, k) ==
    IF k > OpX(m.opc) THEN [ v |-> w, panic |-> FALSE ]
    ELSE IF U16(m.I + k) >= MemSize THEN [ v |-> w, panic |-> TRUE ]
    ELSE RegLoadFrom(m, [w EXCEPT ![k] = At(m.mem, U16(m.I + k))], k + 1)

\* regLoad that leaves I behind the last byte read, I += X + 1.
regLoadAdvancingI(m) ==
    LET l == RegLoadFrom(m, m.v, 0)
    IN  IF l.panic THEN Res([m EXCEPT !.v = l.v], 0, "", "panic")
        ELSE Res([m EXCEPT !.v = l.v, !.I = U16(m.I + OpX(m.opc) + 1),
                           !.pc = U16(m.pc + 2)],
                 OpAll(m.opc), "", "ret")

regLoad(m) ==
    LET l == RegLoadFrom(m, m.v, 0)
    IN  IF l.panic THEN Res([m EXCEPT !.v = l.v], 0, "", "panic")
        ELSE Res([m EXCEPT !.v = l.v, !.pc = U16(m.pc + 2)],
                 OpAll(m.opc), "", "ret")

handle0xF000(m) ==
    CASE OpNN(m.opc) = 7   -> getDelayTimer(m)
      [] OpNN(m.opc) = 21  -> setDelayTimer(m)
      [] OpNN(m.opc) = 24  -> setSoundTimer(m)
      [] OpNN(m.opc) = 41  -> loadFont(m)
      [] OpNN(m.opc) = 51  -> setBCD(m)
      [] OpNN(m.opc) = 101 -> regLoad(m)
      [] OTHER -> Res(m, OpAll(m.opc), "TODO: handle0xF000", "ret")

(***************************************************************************)
(* Dispatch.                                                               *)
(***************************************************************************)
\* An opcodeHandler value of the handlers map.
H(name, fn) == [ opcode |-> name, handler |-> fn ]

\* The map registerHandlers builds, keyed on opc & 0xF000.
registerHandlers ==
    (0     :> H("handle0x0000", "handle0x0000")) @@
    (4096  :> H("1NNN", "jump")) @@
    (8192  :> H("2NNN", "callSub")) @@
    (12288 :> H("3XNN", "skipVxNN")) @@
    (16384 :> H("4XNN", "skipVxNotNN")) @@
    (24576 :> H("6XNN", "setVx")) @@
    (28672 :> H("7XNN", "incVx")) @@
    (32768 :> H("handle0x8000", "handle0x8000")) @@
    (36864 :> H("9XY0", "skipVxNotVy")) @@
    (40960 :> H("ANNN", "setAddress")) @@
    (49152 :> H("CXNN", "setVxRand")) @@
    (53248 :> H("DXYN", "draw")) @@
    (57344 :> H("handle0xE000", "handle0xE000")) @@
    (61440 :> H("handle0xF000", "handle0xF000"))

\* h.handler(): the call through the method value stored in the map.
Call(fn, m, r) ==
    CASE fn = "handle0x0000" -> handle0x0000(m)
      [] fn = "jump"         -> jump(m)
      [] fn = "callSub"      -> callSub(m)
      [] fn = "skipVxNN"     -> skipVxNN(m)
      [] fn = "skipVxNotNN"  -> skipVxNotNN(m)
      [] fn = "setVx"        -> setVx(m)
      [] fn = "incVx"        -> incVx(m)
      [] fn = "handle0x8000" -> handle0x8000(m)
      [] fn = "skipVxNotVy"  -> skipVxNotVy(m)
      [] fn = "setAddress"   -> setAddress(m)
      [] fn = "setVxRand"    -> setVxRand(m, r)
      [] fn = "draw"         -> draw(m)
      [] fn = "handle0xE000" -> handle0xE000(m)
      [] fn = "handle0xF000" -> handle0xF000(m)

\* An error value: its text, and the opcode name, value and cause it formats.
Err(text, name, val, cause) ==
    [ kind |-> text, opcode |-> name, val |-> val, cause |-> cause ]

\* The nil error.
Nil == Err("nil", "", 0, "")

\* Nothing returned (yet).
NoReturn == Err("none", "", 0, "")

\* What handle logs when Debug is set: the handler's name and value.
DebugLog(dbg, name, val) == IF dbg THEN << name, val >> ELSE << >>

\* handle that takes a missing handler for nothing to do and returns nil.
handleIgnoringMissing(m, r, dbg) ==
    LET key == OpFamily(m.opc)
    IN  IF key \notin DOMAIN registerHandlers
        THEN [ m |-> [m EXCEPT !.pc = U16(m.pc + 2)], out |-> "ok", ran |-> 0,
               err |-> Nil, log |-> << >> ]
        ELSE LET h == registerHandlers[key]
                 c == Call(h.handler, m, r)
             IN  IF c.out # "ret"
                 THEN [ m |-> c.m, out |-> c.out, ran |-> 1, err |-> NoReturn,
                        log |-> << >> ]
                 ELSE IF c.err # ""
                 THEN [ m |-> c.m, out |-> "err", ran |-> 1,
                        err |-> Err("error handling opcode", h.opcode, c.val, c.err),
                        log |-> << >> ]
                 ELSE [ m |-> c.m, out |-> "ok", ran |-> 1, err |-> Nil,
                        log |-> DebugLog(dbg, h.opcode, c.val) ]

\* handle whose Debug branch comes before the error test: with Debug set it
\* logs and returns nil whatever the handler returned.
handleDebugFirst(m, r, dbg) ==
    LET key == OpFamily(m.opc)
    IN  IF key \notin DOMAIN registerHandlers
        THEN [ m |-> m, out |-> "err", ran |-> 0,
               err |-> Err("unsupported opcode", "", m.opc, ""), log |-> << >> ]
        ELSE LET h == registerHandlers[key]
                 c == Call(h.handler, m, r)
             IN  IF c.out # "ret"
                 THEN [ m |-> c.m, out |-> c.out, ran |-> 1, err |-> NoReturn,
                        log |-> << >> ]
                 ELSE IF dbg
                 THEN [ m |-> c.m, out |-> "ok", ran |-> 1, err |-> Nil,
                        log |-> DebugLog(dbg, h.opcode, c.val) ]
                 ELSE IF c.err # ""
                 THEN [ m |-> c.m, out |-> "err", ran |-> 1,
                        err |-> Err("error handling opcode", h.opcode, c.val, c.err),
                        log |-> << >> ]
                 ELSE [ m |-> c.m, out |-> "ok", ran |-> 1, err |-> Nil,
                        log |-> << >> ]

\* handle, with dbg the value of v.Debug: look the handler up under
\* opc & 0xF000 and run it. out is "ok" (nil), "err", "panic", or "send"
\* (parked inside draw, before the log); ran counts the handlers called; log
\* is what log.Printf was given.
handle(m, r, dbg) ==
    LET key == OpFamily(m.opc)
    IN  IF key \notin DOMAIN registerHandlers
        THEN [ m |-> m, out |-> "err", ran |-> 0,
               err |-> Err("unsupported opcode", "", m.opc, ""), log |-> << >> ]
        ELSE LET h == registerHandlers[key]
                 c == Call(h.handler, m, r)
             IN  IF c.out # "ret"
                 THEN [ m |-> c.m, out |-> c.out, ran |-> 1, err |-> NoReturn,
                        log |-> << >> ]
                 ELSE IF c.err # ""
                 THEN [ m |-> c.m, out |-> "err", ran |-> 1,
                        err |-> Err("error handling opcode", h.opcode, c.val, c.err),
                        log |-> << >> ]
                 ELSE [ m |-> c.m, out |-> "ok", ran |-> 1, err |-> Nil,
                        log |-> DebugLog(dbg, h.opcode, c.val) ]

(***************************************************************************)
(* Timers.                                                                 *)
(***************************************************************************)
\* The test widened to any running sound timer.
BeepDueWhileRunning(st) == st >= 1

\* The test guarding the send on beepChan in updateTimers.
BeepDue(st) == st = 1

\* updateTimers without the tests for a timer at 0: the bytes wrap to 255.
updateTimersWrapping(m) ==
    LET m1 == [m EXCEPT !.delayTimer = U8(m.delayTimer - 1)]
    IN  IF BeepDue(m1.soundTimer)
        THEN [ m |-> m1, out |-> "send" ]
        ELSE [ m |-> [m1 EXCEPT !.soundTimer = U8(m1.soundTimer - 1)],
               out |-> "ret" ]

\* updateTimers that counts soundTimer down without the send on beepChan.
updateTimersNoBeep(m) ==
    LET m1 == IF m.delayTimer > 0
              THEN [m EXCEPT !.delayTimer = U8(m.delayTimer - 1)] ELSE m
    IN  IF m1.soundTimer > 0
        THEN [ m |-> [m1 EXCEPT !.soundTimer = U8(m1.soundTimer - 1)],
               out |-> "ret" ]
        ELSE [ m |-> m1, out |-> "ret" ]

\* updateTimers up to its send on beepChan (out = "send", soundTimer not yet
\* decremented) or to its end (out = "ret").
updateTimers(m) ==
    LET m1 == IF m.delayTimer > 0
              THEN [m EXCEPT !.delayTimer = U8(m.delayTimer - 1)] ELSE m
    IN  IF m1.soundTimer > 0
        THEN IF BeepDue(m1.soundTimer)
             THEN [ m |-> m1, out |-> "send" ]
             ELSE [ m |-> [m1 EXCEPT !.soundTimer = U8(m1.soundTimer - 1)],
                    out |-> "ret" ]
        ELSE [ m |-> m1, out |-> "ret" ]

\* updateTimers after its send was received: v.soundTimer--.
updateTimersAfterSend(m) == [m EXCEPT !.soundTimer = U8(m.soundTimer - 1)]

\* Cycle calling updateTimers whether or not a tick is waiting.
TimerGateEveryCycle(m, c) ==
    LET u == updateTimers(m)
    IN  [ m |-> u.m, clock |-> IF c > 0 THEN c - 1 ELSE c, out |-> u.out,
          serviced |-> IF c > 0 THEN 1 ELSE 0 ]

\* Cycle's select on clock.C with a default: c is the number of ticks waiting.
TimerGate(m, c) ==
    IF c > 0
    THEN LET u == updateTimers(m)
         IN  [ m |-> u.m, clock |-> c - 1, out |-> u.out, serviced |-> 1 ]
    ELSE [ m |-> m, clock |-> c, out |-> "ret", serviced |-> 0 ]

\* The merge with the bytes swapped.
LittleEndian(hi, lo) == lo * 256 + hi

\* The big-endian merge of the two fetched bytes.
BigEndian(hi, lo) == hi * 256 + lo

\* Cycle's fetch; reading mem at or beyond 4096 panics and leaves opc alone.
Fetch(m) ==
    IF m.pc >= MemSize \/ U16(m.pc + 1) >= MemSize
    THEN [ m |-> m, panic |-> TRUE ]
    ELSE [ m |-> [m EXCEPT !.opc = BigEndian(At(m.mem, m.pc),
                                             At(m.mem, U16(m.pc + 1)))],
           panic |-> FALSE ]

(***************************************************************************)
(* ROM images handed to Load.                                              *)
(***************************************************************************)
\* The bytes of a sequence of 16-bit instructions, high byte first.
Bytes(ws) ==
    [ k \in 1..(2 * Len(ws)) |->
        IF k % 2 = 1 THEN ws[(k + 1) \div 2] \div 256 ELSE ws[k \div 2] % 256 ]

\* An image of n bytes: 1FFE (jump to the last instruction slot of mem), then
\* 60AA (V0 = 0xAA) repeated.
Filler(n) ==
    [ k \in 1..n |->
        IF k = 1 THEN 31 ELSE IF k = 2 THEN 254
        ELSE IF k % 2 = 1 THEN 96 ELSE 170 ]

\* Short programs, as instruction words.
Programs ==
    { << >>,
      \* no primary handler
      << 20768 >>, << 45347 >>,
      \* family 0x0: 00E0, 0123, 01E0, 00EE, 01EE
      << 224 >>, << 291 >>, << 480 >>, << 238 >>, << 494 >>,
      \* family 0x8: 60FF 6101 8014 8015 8012 8100 8106
      << 24831, 24833, 32788, 32789, 32786, 33024, 33030 >>,
      << 32785 >>,
      \* family 0xE: E09E; E0A1; 600A E0A1 1200 1200; 6010 E0A1
      << 57502 >>, << 57505 >>, << 24586, 57505, 4608, 4608 >>, << 24592, 57505 >>,
      \* family 0xF: 60FF F015 F007 F029 F033 F165 F00A
      << 24831, 61461, 61447, 61481, 61491, 61797, 61450 >>,
      \* skips: 3001 4000 4001 (skipped) 3000 (skipped) 9010 7105 9010
      << 12289, 16384, 16385, 0, 12288, 0, 36880, 28933, 36880 >>,
      \* call and return: 2204 1200 00EE
      << 8708, 4608, 238 >>,
      \* VF as the operand: 6F05 6001 80F4 6F05 80F5
      << 28421, 24577, 33012, 28421, 33013 >>,
      \* add immediate with VF set: 6FAA 60FF 7001
      << 28586, 24831, 28673 >>,
      \* BCD of 123: A300 607B F033
      << 41728, 24699, 61491 >>,
      \* jump to an odd address: 1201
      << 4609 >>,
      \* random: C003
      << 49155 >>,
      \* draw glyph 0 twice: A000 D005 D005 1206
      << 40960, 53253, 53253, 4614 >>,
      \* draw glyph 0, then glyph 1 twice, at (3, 2):
      \* 6003 6102 A000 D015 A005 D015 D015
      << 24579, 24834, 40960, 53269, 40965, 53269, 53269 >>,
      \* draw glyph 0 three times: A000 D005 D005 D005
      << 40960, 53253, 53253, 53253 >>,
      \* draw off the display: 60FF 61FF D011
      << 24831, 25087, 53265 >>,
      \* sound: 6002 F018 F015 1206
      << 24578, 61464, 61461, 4614 >>,
      \* delay: 6003 F015 1204
      << 24579, 61461, 4612 >>,
      \* sound written to zero: 6001 F018 6100 F118 1208
      << 24577, 61464, 24832, 61720, 4616 >>,
      \* registers, I, stack and timers in use:
      \* 60FF A20A 2206 6105 F115 F118
      << 24831, 41482, 8710, 24837, 61717, 61720 >>,
      \* BCD at the end of mem: AFFE 60FF F033
      << 45054, 24831, 61491 >>,
      \* register load: A004 6305 F165
      << 40964, 25349, 61797 >>,
      \* font address after BCD over the font: A000 60FF F033 6000 F029
      << 40960, 24831, 61491, 24576, 61481 >>,
      \* font address of digit 0xF: 600F F029
      << 24591, 61481 >>,
      \* a failing instruction with the delay timer running: 6003 F015 00E0
      << 24579, 61461, 224 >>,
      \* BCD over the font: A000 60FF F033
      << 40960, 24831, 61491 >> }

\* A one-byte image, and images around the 3584 bytes that fit.
Roms ==
    { Bytes(p) : p \in Programs } \cup
    { Filler(n) : n \in {1, MemSize - ProgStart, MemSize - ProgStart + 1} }

(***************************************************************************)
(* Load.                                                                   *)
(***************************************************************************)
\* The offset Load adds to each index: programs start at 0x200.
LoadOffset == ProgStart

\* LoadCopy without the 0x200 offset: the image lands at address 0.
LoadCopyNoOffset(memory, data, n) ==
    LET Byte(a) == IF a < n THEN data[a + 1] ELSE At(memory, a)
    IN  Arr(DOMAIN memory \cup (0..(n - 1)), Byte)

\* mem after the first n iterations of Load's copy loop.
LoadCopy(memory, data, n) ==
    LET Byte(a) == IF a >= LoadOffset /\ a - LoadOffset < n
                   THEN data[a - LoadOffset + 1] ELSE At(memory, a)
    IN  Arr(DOMAIN memory \cup (LoadOffset..(LoadOffset + n - 1)), Byte)

\* The number of iterations Load's loop completes: it panics on the first
\* index at or beyond len(mem).
LoadFits(data) ==
    IF Len(data) + LoadOffset > MemSize THEN MemSize - LoadOffset ELSE Len(data)

(***************************************************************************)
(* Input of the model.                                                     *)
(***************************************************************************)
\* The hex keys the window may report as pressed at a poll.
PollKeys == {10}

\* The values rand.Intn(256) may return; only setVxRand (family 0xC000) reads it.
RandChoices(m) ==
    IF m.pc < MemSize - 1 /\ At(m.mem, m.pc) \div 16 = 12 THEN 0..255 ELSE {0}

(***************************************************************************)
(* Initial state: New(), that is reset() on a zero VM with two unbuffered   *)
(* channels, a fresh ticker and no Handler goroutine yet.                  *)
(***************************************************************************)
\* The zero value of the VM struct, which New allocates.
ZeroVM ==
    [ opc |-> 0,
      mem |-> LET Blank(a) == 0 IN Arr(0..(MemSize - 1), Blank),
      v |-> [ k \in 0..15 |-> 0 ],
      I |-> 0,
      pc |-> 0,
      disp |-> LET Blank(k) == 0 IN Arr(0..(DispSize - 1), Blank),
      delayTimer |-> 0,
      soundTimer |-> 0,
      stack |-> [ k \in 0..(StackSize - 1) |-> 0 ],
      sp |-> 0,
      keys |-> [ k \in 0..(NumKeys - 1) |-> 0 ] ]

\* reset whose font loop stops one byte short.
resetFontShort(m) ==
    [ m EXCEPT
        !.opc = 0,
        !.mem = LET Font(a) == IF a < FontLen - 1 THEN fontset[a + 1] ELSE 0
                IN  Arr(0..(MemSize - 1), Font),
        !.v = [ k \in 0..15 |-> 0 ],
        !.I = 0,
        !.pc = ProgStart,
        !.sp = 0,
        !.disp = LET Blank(k) == 0 IN Arr(0..(DispSize - 1), Blank),
        !.stack = [ k \in 0..(StackSize - 1) |-> 0 ],
        !.delayTimer = 0,
        !.soundTimer = 0 ]

\* reset: the fields it assigns, in its order; it does not assign keys.
reset(m) ==
    [ m EXCEPT
        !.opc = 0,
        !.mem = LET Font(a) == IF a < FontLen THEN fontset[a + 1] ELSE 0
                IN  Arr(0..(MemSize - 1), Font),
        !.v = [ k \in 0..15 |-> 0 ],
        !.I = 0,
        !.pc = ProgStart,
        !.sp = 0,
        !.disp = LET Blank(k) == 0 IN Arr(0..(DispSize - 1), Blank),
        !.stack = [ k \in 0..(StackSize - 1) |-> 0 ],
        !.delayTimer = 0,
        !.soundTimer = 0 ]

\* New(): reset on the zero VM.
New == reset(ZeroVM)

(***************************************************************************)
(* The machine of the earlier main package (chip8.go, opcodes.go): the     *)
(* chip8 struct and its draw handler.                                      *)
(***************************************************************************)
\* The zero value of the chip8 struct, which newChip8 allocates.
ZeroChip8 ==
    [ opc |-> 0,
      memory |-> LET Blank(a) == 0 IN Arr(0..(MemSize - 1), Blank),
      V |-> [ k \in 0..15 |-> 0 ],
      I |-> 0,
      pc |-> 0,
      disp |-> LET Blank(k) == 0 IN Arr(0..(DispSize - 1), Blank),
      delayTimer |-> 0,
      soundTimer |-> 0,
      stack |-> [ k \in 0..(StackSize - 1) |-> 0 ],
      sp |-> 0,
      key |-> [ k \in 0..(NumKeys - 1) |-> 0 ],
      draw |-> FALSE ]

\* chip8.reset: it assigns neither key nor draw.
resetChip8(c) ==
    [ c EXCEPT
        !.opc = 0,
        !.memory = LET Font(a) == IF a < FontLen THEN fontset[a + 1] ELSE 0
                   IN  Arr(0..(MemSize - 1), Font),
        !.V = [ k \in 0..15 |-> 0 ],
        !.I = 0,
        !.pc = ProgStart,
        !.sp = 0,
        !.disp = LET Blank(k) == 0 IN Arr(0..(DispSize - 1), Blank),
        !.stack = [ k \in 0..(StackSize - 1) |-> 0 ],
        !.delayTimer = 0,
        !.soundTimer = 0 ]

\* newChip8(): reset on the zero struct.
newChip8 == resetChip8(ZeroChip8)

\* One row of drawDisp's inner loop, from column cX on. The guard skips an
\* index greater than len(c.disp); an index that passes it and is not inside
\* disp panics when the sprite bit is set.
RECURSIVE DrawDispRow(_, _, _, _, _)
DrawDispRow(d, vf, pixel, base, cX) ==
    IF cX >= 8 THEN [ disp |-> d, vf |-> vf, panic |-> FALSE ]
    ELSE LET index == U16(base + cX)
         IN  IF index > DispSize
             THEN DrawDispRow(d, vf, pixel, base, cX + 1)
             ELSE IF And8(pixel, 128 \div (2 ^ cX)) = 0
             THEN DrawDispRow(d, vf, pixel, base, cX + 1)
             ELSE IF index >= DispSize
             THEN [ disp |-> d, vf |-> vf, panic |-> TRUE ]
             ELSE DrawDispRow(Put(d, index, IF At(d, index) % 2 = 0
                                            THEN At(d, index) + 1
                                            ELSE At(d, index) - 1),
                              IF At(d, index) = 1 THEN 1 ELSE vf,
                              pixel, base, cX + 1)

\* drawDisp's outer loop, from row cY on. Reading memory outside its 4096
\* bytes panics.
RECURSIVE DrawDispRows(_, _, _, _, _, _, _)
DrawDispRows(c, d, vf, x, y, height, cY) ==
    IF cY >= height THEN [ disp |-> d, vf |-> vf, panic |-> FALSE ]
    ELSE IF U16(c.I + cY) >= MemSize
         THEN [ disp |-> d, vf |-> vf, panic |-> TRUE ]
    ELSE LET row == DrawDispRow(d, vf, At(c.memory, U16(c.I + cY)),
                                U16(x + U16((y + cY) * DispWidth)), 0)
         IN  IF row.panic THEN row
             ELSE DrawDispRows(c, row.disp, row.vf, x, y, height, cY + 1)

\* drawDisp on the struct c: the struct it leaves, and whether it returned or
\* panicked.
drawDisp(c) ==
    LET x == c.V[OpX(c.opc)]
        y == c.V[OpY(c.opc)]
        b == DrawDispRows(c, c.disp, 0, x, y, OpN(c.opc), 0)
        c1 == [c EXCEPT !.disp = b.disp, !.V[15] = b.vf]
    IN  IF b.panic
        THEN [ c |-> c1, out |-> "panic" ]
        ELSE [ c |-> [c1 EXCEPT !.draw = TRUE, !.pc = U16(c.pc + 2)],
               out |-> "ret" ]

\* The VM as New() leaves it, with its ticker, channels and driver at their
\* start.
InitVM ==
    /\ opc = New.opc /\ mem = New.mem /\ v = New.v /\ I = New.I
    /\ pc = New.pc /\ sp = New.sp /\ disp = New.disp /\ stack = New.stack
    /\ delayTimer = New.delayTimer /\ soundTimer = New.soundTimer
    /\ keys = New.keys
    /\ clock = 0
    /\ cyc = "idle"
    /\ ret = NoReturn
    /\ loadRet = "none"
    /\ hnd = "none"
    /\ ncycles = 0
    /\ entry = << ProgStart >>
    /\ executed = 0
    /\ serviced = 0
    /\ timerDrop = << 0, 0 >>
    /\ drawsDone = 0
    /\ drawsRecv = 0
    /\ beepsRecv = 0
    /\ beepsDue = 0
    /\ rom = [ data |-> << >>, fails |-> FALSE ]
    /\ loads = 0
    /\ delaySet = << 0, 0 >>
    /\ polled = {}
    /\ resets = 0
    /\ oddTarget = FALSE
    /\ lastCall = << >>
    /\ lastDraw = << >>
    /\ soundSet = << 0, 0 >>

Init ==
    /\ InitVM
    /\ chip8 = [ c |-> newChip8, out |-> "none" ]

\* Assign the VM fields from m.
SetVM(m) ==
    /\ opc' = m.opc /\ mem' = m.mem /\ v' = m.v /\ I' = m.I /\ pc' = m.pc
    /\ disp' = m.disp /\ delayTimer' = m.delayTimer /\ soundTimer' = m.soundTimer
    /\ stack' = m.stack /\ sp' = m.sp /\ keys' = m.keys

(***************************************************************************)
(* Load(rom): fails reports whether ioutil.ReadAll returned an error. The   *)
(* driver calls Load once, on the new VM, before its emulation loop.       *)
(***************************************************************************)
LoadBody(data, fails) ==
    /\ loads' = loads + 1
    /\ rom' = [ data |-> data, fails |-> fails ]
    /\ IF fails
       THEN /\ loadRet' = "error"
            /\ mem' = mem
            /\ cyc' = cyc
       ELSE /\ mem' = LoadCopy(mem, data, LoadFits(data))
            /\ IF LoadFits(data) < Len(data)
               THEN loadRet' = "none" /\ cyc' = "panic"
               ELSE loadRet' = "nil" /\ cyc' = cyc
    /\ UNCHANGED << opc, v, I, pc, disp, delayTimer, soundTimer, stack, sp, keys,
                    clock, ret, hnd, ncycles, entry, executed, serviced,
                    timerDrop, drawsDone, drawsRecv, beepsRecv, beepsDue,
                    delaySet, polled, resets, oddTarget, lastCall, lastDraw,
                    soundSet, chip8 >>

Load(data, fails) ==
    /\ cyc = "idle"
    /\ loadRet = "none"
    /\ loads = 0
    /\ LoadBody(data, fails)

\* Load called a second time, on a VM that has been loaded, and perhaps run,
\* before.
Reload(data, fails) ==
    /\ cyc = "idle"
    /\ loads = 1
    /\ LoadBody(data, fails)

(***************************************************************************)
(* Cycle.                                                                  *)
(***************************************************************************)
\* The instructions handle sends to callSub (2NNN).
IsCall(o) == OpFamily(o) = 8192

\* The instructions handle0x0000 sends to subRet (its case 0x00EE).
IsReturn(o) == OpFamily(o) = 0 /\ OpNN(o) = 238

\* The jumps (1NNN) and calls (2NNN) whose target NNN is odd.
OddTarget(o) == OpFamily(o) \in {4096, 8192} /\ OpNNN(o) % 2 = 1

\* The instructions handle0x8000 sends to incVxVy (8XY4).
IsIncVxVy(o) == OpFamily(o) = 32768 /\ OpN(o) = 4

\* The instructions handle0x8000 sends to decVxVy (8XY5).
IsDecVxVy(o) == OpFamily(o) = 32768 /\ OpN(o) = 5

\* The instructions handle0xF000 sends to setDelayTimer (FX15).
WritesDelayTimer(o) == OpFamily(o) = 61440 /\ OpNN(o) = 21

\* The instructions handle0xF000 sends to setSoundTimer (FX18).
WritesSoundTimer(o) == OpFamily(o) = 61440 /\ OpNN(o) = 24

\* The rest of Cycle once handle has returned nil: the select on the clock,
\* updateTimers up to its send or its end, and the return.
Gate(m, ds) ==
    \E g \in { TimerGate(m, clock) } :
        /\ SetVM(g.m)
        /\ delaySet' = << ds[1], IF ds[2] + g.serviced > ds[1] + 1
                                 THEN ds[1] + 1 ELSE ds[2] + g.serviced >>
        /\ clock' = g.clock
        /\ cyc' = IF g.out = "send" THEN "sendBeep" ELSE "idle"
        /\ ret' = IF g.out = "send" THEN NoReturn ELSE Nil
        /\ serviced' = g.serviced
        /\ timerDrop' = << m.delayTimer - g.m.delayTimer,
                           m.soundTimer - g.m.soundTimer >>
        /\ beepsDue' = beepsDue +
               (IF g.serviced > 0 /\ m.soundTimer = 1 /\ g.m.soundTimer = 0
                THEN 1 ELSE 0)

\* Cycle from its call to its return, its panic, or the send it parks in. The
\* driver's loop calls it once Load has returned nil. dbg is the value of the
\* exported field Debug at the call.
CycleBody(r, dbg) ==
    /\ cyc = "idle"
    /\ loadRet = "nil"
    /\ \E f \in { Fetch(VM) } :
           IF f.panic
           THEN /\ cyc' = "panic"
                /\ entry' = << pc >>
                /\ ret' = NoReturn
                /\ executed' = 0
                /\ UNCHANGED << vmvars, clock, serviced, timerDrop, beepsDue,
                                drawsDone, delaySet, oddTarget, lastCall,
                                lastDraw, soundSet >>
           ELSE \E h \in { handle(f.m, r, dbg) } :
                    /\ entry' = << pc, At(mem, pc), At(mem, U16(pc + 1)) >>
                    /\ executed' = h.ran
                    /\ oddTarget' = (oddTarget \/ (h.out = "ok" /\ OddTarget(f.m.opc)))
                    /\ lastCall' = IF h.out = "ok" /\ IsCall(f.m.opc)
                                   THEN << pc, sp >>
                                   ELSE IF h.out = "ok" /\ IsReturn(f.m.opc)
                                   THEN << >> ELSE lastCall
                    /\ lastDraw' = IF h.out = "send" THEN << f.m.opc, disp >>
                                   ELSE << >>
                    /\ soundSet' = IF h.out = "ok" /\ WritesSoundTimer(f.m.opc)
                                   THEN << soundSet[1] + 1, 0 >> ELSE soundSet
                    /\ drawsDone' = drawsDone +
                           (IF h.out = "ok" /\ OpFamily(f.m.opc) = 53248
                            THEN 1 ELSE 0)
                    /\ IF h.out = "ok"
                       THEN Gate(h.m, IF WritesDelayTimer(f.m.opc)
                                      THEN << h.m.delayTimer, 0 >> ELSE delaySet)
                       ELSE /\ SetVM(h.m)
                            /\ cyc' = CASE h.out = "err" -> "idle"
                                        [] h.out = "send" -> "sendDraw"
                                        [] OTHER -> "panic"
                            /\ ret' = h.err
                            /\ serviced' = 0
                            /\ timerDrop' = << 0, 0 >>
                            /\ UNCHANGED << clock, beepsDue, delaySet >>
    /\ UNCHANGED << loadRet, hnd, drawsRecv, beepsRecv, rom, loads, polled,
                    resets, chip8 >>

\* The calls of Cycle the model follows: the first MaxCycles of a run.
Cycle(r, dbg) ==
    /\ ncycles < MaxCycles
    /\ ncycles' = ncycles + 1
    /\ CycleBody(r, dbg)

\* draw continues after its send: pc += 2, handle returns nil, then the gate.
CycleAfterDraw ==
    /\ cyc = "drawn"
    /\ drawsDone' = drawsDone + 1
    /\ Gate(drawAfterSend(VM), delaySet)
    /\ UNCHANGED << loadRet, hnd, ncycles, entry, executed, drawsRecv,
                    beepsRecv, rom, loads, polled, resets, oddTarget, lastCall, lastDraw,
                    soundSet, chip8 >>

\* updateTimers continues after its send: soundTimer--, and Cycle returns nil.
CycleAfterBeep ==
    /\ cyc = "beeped"
    /\ LET m == updateTimersAfterSend(VM)
       IN  /\ SetVM(m)
           /\ timerDrop' = [timerDrop EXCEPT ![2] = @ + (soundTimer - m.soundTimer)]
           /\ beepsDue' = beepsDue +
                  (IF soundTimer = 1 /\ m.soundTimer = 0 THEN 1 ELSE 0)
    /\ cyc' = "idle"
    /\ ret' = Nil
    /\ UNCHANGED << clock, loadRet, hnd, ncycles, entry, executed, serviced,
                    drawsDone, drawsRecv, beepsRecv, rom, loads, delaySet,
                    polled, resets, oddTarget, lastCall, lastDraw,
                    soundSet, chip8 >>

\* A runtime panic in the goroutine driving the VM ends the whole process.
Alive == cyc # "panic"

\* The 60 Hz ticker delivers a tick into clock.C; a tick that finds the
\* channel full is dropped.
Tick ==
    /\ Alive
    /\ clock = 0
    /\ clock' = 1
    /\ UNCHANGED << vmvars, cyc, ret, loadRet, hnd, ncycles, entry, executed,
                    serviced, timerDrop, drawsDone, drawsRecv, beepsRecv,
                    beepsDue, rom, loads, delaySet, polled, resets, oddTarget, lastCall, lastDraw,
                    soundSet, chip8 >>

(***************************************************************************)
(* The consumer: Handler.Handle in its own goroutine.                      *)
(***************************************************************************)
\* PixelSet(i), for i inside disp: a read of one cell.
PixelSet(m, i) == At(m.disp, i) = 1

\* KeyDown marks key as pressed.
KeyDown(ks, key) == [ks EXCEPT ![key] = 1]

\* Handler.input: KeyDown for every key the window reports pressed.
RECURSIVE input(_, _)
input(ks, pressed) ==
    IF pressed = {} THEN ks
    ELSE LET key == CHOOSE k \in pressed : TRUE
         IN  input(KeyDown(ks, key), pressed \ {key})

\* go h.Handle(): the goroutine starts and reaches its select.
HandleStart ==
    /\ Alive
    /\ hnd = "none"
    /\ hnd' = "select"
    /\ UNCHANGED << vmvars, clock, cyc, ret, loadRet, ncycles, entry, executed,
                    serviced, timerDrop, drawsDone, drawsRecv, beepsRecv,
                    beepsDue, rom, loads, delaySet, polled, resets, oddTarget, lastCall, lastDraw,
                    soundSet, chip8 >>

\* case <-h.vm.Draw(): the select meets the VM parked in draw's send.
HandleRecvDraw ==
    /\ hnd = "select"
    /\ cyc = "sendDraw"
    /\ hnd' = "draw"
    /\ cyc' = "drawn"
    /\ drawsRecv' = drawsRecv + 1
    /\ UNCHANGED << vmvars, clock, ret, loadRet, ncycles, entry, executed,
                    serviced, timerDrop, drawsDone, beepsRecv, beepsDue,
                    rom, loads, delaySet, polled, resets, oddTarget, lastCall, lastDraw,
                    soundSet, chip8 >>

\* case <-h.vm.Beep(): the select meets the VM parked in updateTimers' send.
HandleRecvBeep ==
    /\ hnd = "select"
    /\ cyc = "sendBeep"
    /\ hnd' = "beep"
    /\ cyc' = "beeped"
    /\ beepsRecv' = beepsRecv + 1
    /\ soundSet' = << soundSet[1], soundSet[2] + 1 >>
    /\ UNCHANGED << vmvars, clock, ret, loadRet, ncycles, entry, executed,
                    serviced, timerDrop, drawsDone, drawsRecv, beepsDue,
                    rom, loads, delaySet, polled, resets, oddTarget, lastCall,
                    lastDraw, chip8 >>

\* default: neither channel has a sender waiting, so the select runs input.
HandleInput(pressed) ==
    /\ Alive
    /\ hnd = "select"
    /\ cyc \notin {"sendDraw", "sendBeep"}
    /\ keys' = input(keys, pressed)
    /\ polled' = pressed
    /\ UNCHANGED << opc, mem, v, I, pc, disp, delayTimer, soundTimer, stack, sp,
                    clock, cyc, ret, loadRet, hnd, ncycles, entry, executed,
                    serviced, timerDrop, drawsDone, drawsRecv, beepsRecv,
                    beepsDue, rom, loads, delaySet, resets, oddTarget, lastCall, lastDraw,
                    soundSet, chip8 >>

\* h.draw() or sound.Beep() returns and the loop comes back to its select.
HandleDone ==
    /\ Alive
    /\ hnd \in {"draw", "beep"}
    /\ hnd' = "select"
    /\ UNCHANGED << vmvars, clock, cyc, ret, loadRet, ncycles, entry, executed,
                    serviced, timerDrop, drawsDone, drawsRecv, beepsRecv,
                    beepsDue, rom, loads, delaySet, polled, resets, oddTarget, lastCall, lastDraw,
                    soundSet, chip8 >>

\* The loop test finds the window closed: Handle returns.
HandleClosed ==
    /\ Alive
    /\ hnd = "select"
    /\ hnd' = "closed"
    /\ UNCHANGED << vmvars, clock, cyc, ret, loadRet, ncycles, entry, executed,
                    serviced, timerDrop, drawsDone, drawsRecv, beepsRecv,
                    beepsDue, rom, loads, delaySet, polled, resets, oddTarget, lastCall, lastDraw,
                    soundSet, chip8 >>

Next ==
    \/ \E data \in Roms, fails \in BOOLEAN : Load(data, fails)
    \/ \E r \in RandChoices(VM), dbg \in BOOLEAN : Cycle(r, dbg)
    \/ CycleAfterDraw
    \/ CycleAfterBeep
    \/ Tick
    \/ HandleStart
    \/ HandleRecvDraw
    \/ HandleRecvBeep
    \/ \E pressed \in SUBSET PollKeys : HandleInput(pressed)
    \/ HandleDone
    \/ HandleClosed

Spec == Init /\ [][Next]_vars

\* The images a second Load is given: short ones, which leave the tail of a
\* longer first image in mem.
ReloadRoms == { << >>, Filler(1), Bytes(<< 4608 >>) }

\* The library used without the driver's discipline: Load may be called again.
NextReload ==
    \/ Next
    \/ \E data \in ReloadRoms, fails \in BOOLEAN : Reload(data, fails)

SpecReload == Init /\ [][NextReload]_vars

\* reset called on the constructed VM between two Cycle calls (a restart):
\* the machine starts over with a new ticker and an empty program area. The
\* driver's one Load is behind it, so no Cycle follows.
Reset ==
    /\ cyc = "idle"
    /\ resets < MaxResets
    /\ resets' = resets + 1
    /\ SetVM(reset(VM))
    /\ clock' = 0
    /\ loadRet' = "none"
    /\ UNCHANGED << cyc, ret, hnd, ncycles, entry, executed, serviced, timerDrop,
                    drawsDone, drawsRecv, beepsRecv, beepsDue, rom, loads,
                    delaySet, polled, chip8 >>
    /\ oddTarget' = FALSE
    /\ lastCall' = << >>
    /\ lastDraw' = << >>
    /\ soundSet' = << soundSet[1] + 1, 0 >>

\* The library with restarts.
NextReset ==
    \/ Next
    \/ Reset

SpecReset == Init /\ [][NextReset]_vars

\* The most writes of soundTimer a run of one of LiveRoms makes.
MaxSoundSets == 2

\* Programs that write soundTimer and then run on for ever, or fail:
\* 6002 F018 F015 1206; 6001 F018 6100 F118 1208; 6002 F018 6003 F018 1208;
\* A005 6003 F018 D001 1208 (a sprite of one pixel); 6002 F018 00E0.
LiveRoms ==
    { Bytes(p) : p \in { << 24578, 61464, 61461, 4614 >>,
                         << 24577, 61464, 24832, 61720, 4616 >>,
                         << 24578, 61464, 24579, 61464, 4616 >>,
                         << 40965, 24579, 61464, 53249, 4616 >>,
                         << 24578, 61464, 224 >> } }

\* Cycle in a run that is followed without end: the driver's loop calls it
\* again and again, and the calls are not counted.
CycleLive(r, dbg) ==
    /\ ncycles' = ncycles
    /\ CycleBody(r, dbg)

NextLive ==
    \/ \E data \in LiveRoms : Load(data, FALSE)
    \/ \E r \in RandChoices(VM), dbg \in BOOLEAN : CycleLive(r, dbg)
    \/ CycleAfterDraw
    \/ CycleAfterBeep
    \/ Tick
    \/ HandleStart
    \/ HandleRecvDraw
    \/ HandleRecvBeep
    \/ \E pressed \in SUBSET PollKeys : HandleInput(pressed)
    \/ HandleDone
    \/ HandleClosed

\* The ticker keeps firing, the driver's loop keeps calling Cycle, a Cycle
\* whose send was received runs on, and the Handler goroutine keeps running
\* its select loop. Nothing obliges the window to stay open.
FairLive ==
    /\ WF_vars(Tick)
    /\ WF_vars(\E r \in RandChoices(VM), dbg \in BOOLEAN : CycleLive(r, dbg))
    /\ WF_vars(CycleAfterDraw)
    /\ WF_vars(CycleAfterBeep)
    /\ WF_vars(HandleStart)
    /\ WF_vars(HandleRecvDraw)
    /\ WF_vars(HandleRecvBeep)
    /\ WF_vars(HandleDone)

\* The driver's run, followed without end under a fair scheduler.
SpecLive == Init /\ [][NextLive]_vars /\ FairLive

\* drawDisp is called with sprites of at most this many rows.
MaxHeight == 2

\* The byte every row of the sprite holds.
SpriteBytes == {0, 1, 128, 255}

\* The values of V0 (x) and V1 (y).
Coordinates == {0, 31, 32, 33, 56, 57, 63, 64, 255}

\* The structs drawDisp is called on: newChip8's, with D01N fetched, the
\* sprite at 0x300 and I pointing at it.
DrawDispInputs ==
    { [ newChip8 EXCEPT
          !.opc = 53264 + n,
          !.I = 768,
          !.V = [ k \in 0..15 |-> IF k = 0 THEN x ELSE IF k = 1 THEN y ELSE 0 ],
          !.memory = Put(Put(newChip8.memory, 768, b), 769, b) ] :
        x \in Coordinates, y \in Coordinates, n \in 0..MaxHeight,
        b \in SpriteBytes }

InitDrawDisp ==
    /\ InitVM
    /\ chip8 \in { [ c |-> c, out |-> "none" ] : c \in DrawDispInputs }

\* The handler of DXYN called on the earlier machine.
DrawDisp ==
    /\ chip8.out = "none"
    /\ chip8' = drawDisp(chip8.c)
    /\ UNCHANGED << vmvars, clock, cyc, ret, loadRet, hnd, ncycles, entry,
                    executed, serviced, timerDrop, drawsDone, drawsRecv,
                    beepsRecv, beepsDue, rom, loads, delaySet, polled, resets,
                    oddTarget, lastCall, lastDraw, soundSet >>

\* drawDisp applied to each of its inputs.
SpecDrawDisp == InitDrawDisp /\ [][DrawDisp]_vars

(***************************************************************************)
(* Properties.                                                             *)
(***************************************************************************)
\* A Cycle has returned, and no other is under way: ret and opc are its.
Returned == cyc = "idle" /\ ret # NoReturn

\* ret is a non-nil error.
Failed == Returned /\ ret # Nil

\* C1: a Load whose payload is longer than 4096 - 0x200 bytes returns an
\* error and leaves every byte of mem as it was.
C1_LoadTooLongFails ==
    [][ (loads' = loads + 1 /\ Len(rom'.data) > MemSize - ProgStart)
        => (loadRet' = "error" /\ mem' = mem) ]_vars

\* C2: a Load of n <= 3584 bytes (read without error) returns nil, sets
\* mem[0x200 + i] to byte i of the payload for every i < n, and changes no
\* other byte of mem, no register, not I, pc, sp, the stack, the timers, the
\* keys or the framebuffer.
C2_LoadFrame ==
    [][ (loads' = loads + 1 /\ ~rom'.fails
                            /\ Len(rom'.data) <= MemSize - ProgStart)
        => /\ loadRet' = "nil"
           /\ \A a \in DOMAIN mem \cup DOMAIN mem'
                       \cup (ProgStart..(ProgStart + Len(rom'.data) - 1)) :
                  At(mem', a) = IF a >= ProgStart /\ a - ProgStart < Len(rom'.data)
                                THEN rom'.data[a - ProgStart + 1]
                                ELSE At(mem, a)
           /\ UNCHANGED << v, I, pc, sp, stack, delayTimer, soundTimer, keys,
                           disp >> ]_vars

\* C2's case: a second Load of a non-empty image has returned nil on a machine
\* whose registers, stack and timers a program has already changed.
C2_Witness ==
    /\ loads = 2 /\ loadRet = "nil" /\ Len(rom.data) > 0
    /\ v[0] = 255 /\ sp = 1 /\ I # 0 /\ pc # ProgStart

\* C3: a Cycle that returns nil has run exactly one handler, on the
\* big-endian value of the two bytes at the pc it was entered with, and has
\* serviced the timers at most once, taking at most 1 off each timer.
C3_OneInstructionOneService ==
    (Returned /\ ret = Nil)
    => /\ executed = 1
       /\ opc = entry[2] * 256 + entry[3]
       /\ serviced <= 1
       /\ timerDrop[1] \in {0, 1}
       /\ timerDrop[2] \in {0, 1}
       /\ (serviced = 0 => timerDrop = << 0, 0 >>)

\* C3's case: a Cycle returned nil after servicing both running timers.
C3_Witness ==
    /\ Returned /\ ret = Nil
    /\ serviced = 1 /\ timerDrop = << 1, 1 >>
    /\ entry[2] # entry[3]

\* C4: when the fetched instruction's opc & 0xF000 has no registered handler,
\* Cycle returns the unsupported-opcode error, never nil.
C4_UnknownFamilyFails ==
    (Returned /\ OpFamily(opc) \notin DOMAIN registerHandlers)
    => ret.kind = "unsupported opcode"

\* C4's case: Cycle returned on BNNN, a family with no handler.
C4_Witness == Returned /\ opc = 45347 /\ ret.kind = "unsupported opcode"

\* The instructions of the compound families that match no secondary handler,
\* and the recognised but unimplemented ones (0NNN, and 00E0 as it stands).
NoSecondary(o) ==
    \/ o \div 4096 = 0  /\ o % 256 # 238
    \/ o \div 4096 = 8  /\ o % 16 \notin {0, 2, 4, 5}
    \/ o \div 4096 = 14 /\ o % 256 # 161
    \/ o \div 4096 = 15 /\ o % 256 \notin {7, 21, 24, 41, 51, 101}

\* C5: an instruction of a compound family that matches no secondary handler,
\* or that is recognised but unimplemented, makes Cycle return an error and
\* does not advance pc.
C5_NoSilentNoOp ==
    (Returned /\ NoSecondary(opc))
    => /\ ret.kind = "error handling opcode"
       /\ pc = entry[1]

\* C5's case: Cycle returned on EX9E, which has no secondary handler.
C5_Witness == Returned /\ opc = 57502 /\ ret.kind = "error handling opcode"

\* C6: the value carried by an error Cycle returns is the raw 16-bit
\* instruction that was fetched.
C6_ErrorCarriesRawInstruction == Failed => ret.val = opc

\* C7: once Cycle has returned an error, every later Cycle returns the same
\* error for the same instruction at the same pc.
C7_ErrorIsSticky == [][ Failed => (ret' = ret /\ pc' = pc /\ opc' = opc) ]_vars

\* C7's case: Cycle has been called again after it failed on the first
\* instruction, and has failed on it again.
C7_Witness == Failed /\ ncycles >= 2 /\ pc = ProgStart /\ entry[1] = ProgStart

\* C8: a Cycle parked in the send of a draw or beep signal goes on to return
\* without any consumer receiving, even when none is running.
C8_SendNeedsNoReceiver ==
    (cyc \in {"sendDraw", "sendBeep"} /\ hnd \in {"none", "closed"})
    => ENABLED (CycleAfterDraw \/ CycleAfterBeep)

\* C9: the draw notifications received number at least the draw instructions
\* completed and at most one more, the one more being the draw in progress.
C9_OneDrawSignalPerDraw ==
    /\ drawsDone <= drawsRecv
    /\ drawsRecv <= drawsDone + 1
    /\ (drawsRecv = drawsDone + 1 => cyc = "drawn")

\* C9's case: two draw instructions have completed.
C9_Witness == drawsDone = 2 /\ drawsRecv = 2 /\ cyc = "idle"

C11_ServiceFloorsAtZero ==
    /\ (Returned /\ ret = Nil /\ serviced = 1)
       => /\ timerDrop[1] \in {0, 1} /\ (timerDrop[1] = 0 => delayTimer = 0)
          /\ timerDrop[2] \in {0, 1} /\ (timerDrop[2] = 0 => soundTimer = 0)
    /\ (Returned /\ ret = Nil /\ serviced = 0) => timerDrop = << 0, 0 >>
    /\ cyc \in {"sendBeep", "beeped"} => serviced = 1

\* C11's case: a service found both timers at 0 and left them there, after an
\* earlier one had run the delay timer down.
C11_Witness ==
    /\ Returned /\ ret = Nil /\ serviced = 1
    /\ timerDrop = << 0, 0 >> /\ delayTimer = 0 /\ soundTimer = 0
    /\ delaySet[1] > 0 /\ delaySet[2] > delaySet[1]

\* C12: delayTimer, last written with n, is n less the timer services since,
\* and 0 from the n-th service on: non-zero before the n-th service, 0 after
\* it, whatever the number of Cycle calls that found no tick.
C12_DelayCountsServices ==
    delayTimer = IF delaySet[1] > delaySet[2] THEN delaySet[1] - delaySet[2] ELSE 0

\* C12's case: the delay timer was set to 3 and reached 0 at its third
\* service, with Cycle calls that found no tick in between.
C12_Witness ==
    /\ cyc = "idle" /\ delaySet = << 3, 3 >> /\ delayTimer = 0 /\ ncycles >= 6

\* C13: the key states follow the latest input poll: a key that poll did not
\* find pressed has key state 0, and a skip-if-key-not-pressed (EXA1) on such
\* a key skips, pc += 4.
C13_KeysFollowLatestPoll ==
    [][ /\ \A k \in 0..(NumKeys - 1) : k \notin polled' => keys'[k] = 0
        /\ ( /\ ncycles' = ncycles + 1 /\ ret' = Nil
             /\ OpFamily(opc') = 57344 /\ OpNN(opc') = 161
             /\ v[OpX(opc')] < NumKeys /\ v[OpX(opc')] \notin polled )
           => pc' = U16(pc + 4) ]_vars

\* C14: right after reset, whatever the state before it, every field of the
\* machine is zero (V0..VF, I, sp, the stack, the framebuffer, both timers,
\* the opcode, the 16 key states, and mem outside the font region) except pc,
\* which is 0x200.
C14_ResetZeroesAll ==
    [][ resets' = resets + 1
        => /\ \A k \in 0..15 : v'[k] = 0
           /\ I' = 0 /\ sp' = 0 /\ opc' = 0
           /\ \A k \in 0..(StackSize - 1) : stack'[k] = 0
           /\ DOMAIN disp' = {}
           /\ delayTimer' = 0 /\ soundTimer' = 0
           /\ \A k \in 0..(NumKeys - 1) : keys'[k] = 0
           /\ \A a \in DOMAIN mem' : a < FontLen
           /\ pc' = ProgStart ]_vars

C16_StackPointerBounded ==
    /\ sp <= StackSize - 1
    /\ (cyc = "panic" => ~(IsCall(opc) \/ IsReturn(opc)))

\* C17 as stated: in every state reachable from reset by Load and successful
\* Cycle calls pc is even.
C17_PcEven == pc % 2 = 0

\* C17, amended: pc is even in every state reachable from reset by Load and
\* Cycle calls, as long as no jump or call to an odd address has been executed.
C17_PcEvenUnlessOddTarget == ~oddTarget => pc % 2 = 0

\* C17's case: skips taken and not taken, an add and a last skip have run
\* without any jump or call to an odd address.
C17_Witness ==
    /\ Returned /\ ret = Nil /\ ~oddTarget
    /\ opc = 36880 /\ pc = 532 /\ ncycles = 7

\* C18: a return (00EE) that follows a call (2NNN) made at pc = p with
\* sp = s, with no other call or return executed in between, leaves
\* pc = p + 2 and sp = s.
C18_CallReturnRoundTrip ==
    [][ ( /\ lastCall # << >>
          /\ ncycles' = ncycles + 1 /\ cyc' # "panic" /\ IsReturn(opc') )
        => (pc' = lastCall[1] + 2 /\ sp' = lastCall[2]) ]_vars

\* C18's case: 2204 at 0x200 called 0x204 and the 00EE there returned to
\* 0x202 with sp back at 0.
C18_Witness ==
    /\ Returned /\ ret = Nil /\ IsReturn(opc) /\ lastCall = << >>
    /\ entry[1] = 516 /\ pc = 514 /\ sp = 0 /\ stack[1] = 512

\* C19: carry-add 8XY4, for X in 0..0xE and Y in 0..0xF (Y = 0xF included)
\* and any register values, leaves Vx = (old Vx + old Vy) mod 256, VF = 1 if
\* old Vx + old Vy > 255 and 0 otherwise, and pc advanced by 2.
C19_CarryAdd ==
    [][ ( /\ ncycles' = ncycles + 1 /\ cyc' # "panic" /\ executed' = 1
          /\ IsIncVxVy(opc') /\ OpX(opc') <= 14 )
        => /\ v'[OpX(opc')] = (v[OpX(opc')] + v[OpY(opc')]) % 256
           /\ v'[15] = IF v[OpX(opc')] + v[OpY(opc')] > 255 THEN 1 ELSE 0
           /\ pc' = U16(pc + 2) ]_vars

\* C20: borrow-sub 8XY5, for X in 0..0xE and Y in 0..0xF (Y = 0xF included)
\* and any register values, leaves Vx = (old Vx - old Vy) mod 256, VF = 0 if
\* old Vy > old Vx and 1 otherwise, and pc advanced by 2.
C20_BorrowSub ==
    [][ ( /\ ncycles' = ncycles + 1 /\ cyc' # "panic" /\ executed' = 1
          /\ IsDecVxVy(opc') /\ OpX(opc') <= 14 )
        => /\ v'[OpX(opc')] = (v[OpX(opc')] - v[OpY(opc')] + 256) % 256
           /\ v'[15] = IF v[OpY(opc')] > v[OpX(opc')] THEN 0 ELSE 1
           /\ pc' = U16(pc + 2) ]_vars

\* C21: add-immediate 7XNN, for X in 0..0xE and any NN, leaves
\* Vx = (old Vx + NN) mod 256, VF and every other register unchanged, and pc
\* advanced by 2.
C21_AddImmediate ==
    [][ ( /\ ncycles' = ncycles + 1 /\ executed' = 1
          /\ OpFamily(opc') = 28672 /\ OpX(opc') <= 14 )
        => /\ cyc' # "panic"
           /\ v' = [v EXCEPT ![OpX(opc')] = (v[OpX(opc')] + OpNN(opc')) % 256]
           /\ pc' = U16(pc + 2) ]_vars

\* C21's case: 7001 took V0 from 0xFF round to 0 and left VF at 0xAA.
C21_Witness ==
    /\ Returned /\ ret = Nil /\ opc = 28673
    /\ v[0] = 0 /\ v[15] = 170 /\ ncycles = 3

\* C24: store-BCD FX33 with I <= 4093, for any Vx, leaves the hundreds, tens
\* and ones digits of Vx (each in 0..9) in mem[I], mem[I+1], mem[I+2]; no
\* other byte of mem, no register and not I changes; pc advances by 2.
C24_StoreBCD ==
    [][ ( /\ ncycles' = ncycles + 1 /\ executed' = 1
          /\ OpFamily(opc') = 61440 /\ OpNN(opc') = 51 /\ I <= MemSize - 3 )
        => /\ cyc' # "panic"
           /\ \A k \in 0..2 : At(mem', I + k) \in 0..9
           /\ 100 * At(mem', I) + 10 * At(mem', I + 1) + At(mem', I + 2)
                  = v[OpX(opc')]
           /\ \A a \in (DOMAIN mem \cup DOMAIN mem') \ {I, I + 1, I + 2} :
                  At(mem', a) = At(mem, a)
           /\ v' = v /\ I' = I
           /\ pc' = U16(pc + 2) ]_vars

\* C24's case: F033 with V0 = 123 and I = 0x300 stored 1, 2, 3.
C24_Witness ==
    /\ Returned /\ ret = Nil /\ opc = 61491 /\ v[0] = 123 /\ I = 768
    /\ At(mem, 768) = 1 /\ At(mem, 769) = 2 /\ At(mem, 770) = 3

\* C25: the clear-display instruction 00E0 sets all 2048 framebuffer cells to
\* 0 and Cycle returns without error.
C25_ClearDisplay ==
    (Returned /\ opc = 224) => (ret = Nil /\ DOMAIN disp = {})

\* C26: 5XY0 is a supported opcode: Cycle returns without error, pc advances
\* by 4 if Vx = Vy and by 2 otherwise, and no register changes.
C26_SkipIfEqual ==
    [][ ( /\ ncycles' = ncycles + 1 /\ cyc' # "panic" /\ Len(entry') = 3
          /\ OpFamily(opc') = 20480 /\ OpN(opc') = 0 )
        => /\ ret' = Nil
           /\ pc' = U16(pc + (IF v[OpX(opc')] = v[OpY(opc')] THEN 4 ELSE 2))
           /\ v' = v ]_vars

\* The condition of a conditional skip o, on registers w and key states ks.
SkipCondition(o, w, ks) ==
    CASE OpFamily(o) = 12288 -> w[OpX(o)] = OpNN(o)
      [] OpFamily(o) = 16384 -> w[OpX(o)] # OpNN(o)
      [] OpFamily(o) = 36864 -> w[OpX(o)] # w[OpY(o)]
      [] OpFamily(o) = 57344 -> ks[w[OpX(o)]] = 0

\* C30: the conditional skips 3XNN, 4XNN, 9XY0 and EXA1 (with Vx in 0..15)
\* advance pc by 4 when their condition holds and by 2 otherwise, and change
\* no register, byte of mem, stack slot, key or framebuffer cell, nor sp or I,
\* nor a timer (which only a timer service of the same Cycle lowers).
C30_ConditionalSkips ==
    [][ ( /\ ncycles' = ncycles + 1 /\ executed' = 1
          /\ \/ OpFamily(opc') \in {12288, 16384, 36864}
             \/ ( OpFamily(opc') = 57344 /\ OpNN(opc') = 161
                  /\ v[OpX(opc')] < NumKeys ) )
        => /\ cyc' # "panic"
           /\ pc' = U16(pc + (IF SkipCondition(opc', v, keys) THEN 4 ELSE 2))
           /\ UNCHANGED << v, mem, stack, sp, I, keys, disp >>
           /\ (serviced' = 0 => UNCHANGED << delayTimer, soundTimer >>)
           /\ delayTimer' \in {delayTimer, delayTimer - 1}
           /\ soundTimer' \in {soundTimer, soundTimer - 1} ]_vars

\* C30's case: 9010 with V0 = 0 and V1 = 5 skipped from 0x210 to 0x214, after
\* skips that were and were not taken.
C30_Witness ==
    /\ Returned /\ ret = Nil /\ opc = 36880 /\ entry[1] = 528 /\ pc = 532
    /\ v[0] = 0 /\ v[1] = 5

\* The framebuffer cells a DXYN o addresses, with registers w, index register
\* i and memory: for each row r < N and each bit b < 8, most significant
\* first, set in memory[i + r], the cell (Vx + b) + (Vy + r) * 64.
SpriteCells(o, w, i, memory) ==
    { w[OpX(o)] + p[2] + (w[OpY(o)] + p[1]) * DispWidth :
        p \in { q \in (0..(OpN(o) - 1)) \X (0..7) :
                  (At(memory, i + q[1]) \div (2 ^ (7 - q[2]))) % 2 = 1 } }

\* The sprite rows lie inside mem and the addressed cells inside disp.
DrawInBounds(o, w, i, memory) ==
    /\ i + OpN(o) <= MemSize
    /\ \A c \in SpriteCells(o, w, i, memory) : c < DispSize

\* C22: an in-bounds draw DXYN XORs with 1 exactly the cells its sprite
\* addresses, ends with VF = 1 if one of them was 1 before and VF = 0
\* otherwise, changes no other register, not I and not mem, and advances pc by
\* 2 (once its draw signal is taken).
C22_DrawXors ==
    [][ /\ ( /\ ncycles' = ncycles + 1 /\ executed' = 1
             /\ OpFamily(opc') = 53248 /\ DrawInBounds(opc', v, I, mem) )
           => /\ cyc' = "sendDraw"
              /\ \A c \in DOMAIN disp \cup DOMAIN disp'
                          \cup SpriteCells(opc', v, I, mem) :
                     At(disp', c) = IF c \in SpriteCells(opc', v, I, mem)
                                    THEN 1 - At(disp, c) ELSE At(disp, c)
              /\ v' = [v EXCEPT ![15] =
                          IF \E c \in SpriteCells(opc', v, I, mem) : At(disp, c) = 1
                          THEN 1 ELSE 0]
              /\ I' = I /\ mem' = mem /\ pc' = pc
        /\ (cyc = "drawn" /\ cyc' # "drawn")
           => /\ pc' = U16(pc + 2)
              /\ UNCHANGED << disp, v, I, mem >> ]_vars

\* C22's case: glyph 1 was drawn over glyph 0 at (3, 2): some cells collided,
\* others were lit, and the draw has returned.
C22_Witness ==
    /\ cyc = "idle" /\ ret = Nil /\ opc = 53269 /\ drawsDone = 2
    /\ v[0] = 3 /\ v[1] = 2 /\ v[15] = 1 /\ I = 5
    /\ At(disp, 3 + 2 * DispWidth) = 1 /\ At(disp, 5 + 2 * DispWidth) = 0

\* C23: the same in-bounds DXYN executed twice in a row, X and Y not naming
\* VF, leaves the framebuffer as it was before the first draw, with VF = 1
\* exactly when one of the sprite's cells was 0 before the first draw.
C23_DrawTwiceRestores ==
    [][ ( /\ lastDraw # << >>
          /\ ncycles' = ncycles + 1 /\ executed' = 1 /\ cyc' # "panic"
          /\ opc' = lastDraw[1] /\ OpX(opc') # 15 /\ OpY(opc') # 15 )
        => /\ disp' = lastDraw[2]
           /\ v'[15] = IF \E c \in SpriteCells(opc', v, I, mem) :
                              At(lastDraw[2], c) = 0
                        THEN 1 ELSE 0 ]_vars

\* C23's case: glyph 1 drawn twice in a row over glyph 0 left glyph 0 alone
\* on the display, with VF = 1.
C23_Witness ==
    /\ cyc = "idle" /\ ret = Nil /\ opc = 53269 /\ drawsDone = 3
    /\ v[15] = 1 /\ I = 5 /\ lastDraw # << >> /\ disp # lastDraw[2]
    /\ At(disp, 3 + 2 * DispWidth) = 1 /\ At(disp, 5 + 2 * DispWidth) = 1

\* C27: every framebuffer cell is 0 or 1, and PixelSet(i) is true exactly for
\* the cells that are not 0.
C27_CellsAreBits ==
    \A i \in DOMAIN disp : i < DispSize /\ disp[i] \in {0, 1} /\ PixelSet(VM, i)

\* C27's case: three draws of glyph 0 have lit, unlit and lit its cells again.
C27_Witness ==
    /\ drawsDone = 3 /\ opc = 53253 /\ cyc = "idle"
    /\ PixelSet(VM, 0) /\ ~PixelSet(VM, 4) /\ ~PixelSet(VM, DispSize - 1)

\* C28: Debug never alters control flow: in every state in which Cycle can
\* be called, and for the instruction it fetches there, Cycle with Debug set
\* leaves the same machine, parks in the same send and returns the same nil
\* or error as Cycle with Debug clear.
C28_DebugChangesNothing ==
    (cyc = "idle" /\ loadRet = "nil" /\ ~Fetch(VM).panic)
    => \A r \in RandChoices(VM) :
          LET on  == handle(Fetch(VM).m, r, TRUE)
              off == handle(Fetch(VM).m, r, FALSE)
          IN  /\ on.m = off.m /\ on.out = off.out
              /\ on.err = off.err /\ on.ran = off.ran

\* C28's case: 60FF has run and Cycle is about to run A20A, for which Debug
\* logs the handler's name and value.
C28_Witness ==
    /\ Returned /\ ret = Nil /\ opc = 24831 /\ ncycles = 1
    /\ handle(Fetch(VM).m, 0, TRUE).out = "ok"
    /\ handle(Fetch(VM).m, 0, TRUE).log = << "ANNN", 41482 >>
    /\ handle(Fetch(VM).m, 0, FALSE).log = << >>

\* A Cycle has failed or panicked, or the Handler has returned (the window
\* was closed): the VM is no longer cycled, or its sends are no longer
\* received.
RunEnded == Failed \/ cyc = "panic" \/ hnd = "closed"

GlyphAt(memory, i, d) ==
    \A k \in 0..4 : At(memory, i + k) = fontset[5 * d + k + 1]

\* C32: font-address FX29 sets I = Vx * 5 and advances pc by 2; for Vx in
\* 0..15 the bytes I..I+4 lie inside the font region [0, 80) and are the glyph
\* of hex digit Vx.
C32_FontAddress ==
    [][ ( /\ ncycles' = ncycles + 1 /\ executed' = 1
          /\ OpFamily(opc') = 61440 /\ OpNN(opc') = 41 )
        => /\ cyc' # "panic"
           /\ I' = v[OpX(opc')] * 5
           /\ pc' = U16(pc + 2)
           /\ v[OpX(opc')] <= 15
                  => /\ I' + 4 < FontLen
                     /\ GlyphAt(mem', I', v[OpX(opc')]) ]_vars

\* C36: in every state reachable from reset by Load and Cycle calls,
\* mem[0..80) equals the font table.
C36_FontIntact ==
    \A a \in 0..(FontLen - 1) : At(mem, a) = fontset[a + 1]

\* C33: whatever Vx, Vy and the height N are, every index at which draw reads
\* or writes disp is in 0..2047: a draw whose sprite rows lie inside mem never
\* panics on an index outside the framebuffer.
C33_DrawStaysInFramebuffer ==
    [][ ( /\ ncycles' = ncycles + 1 /\ executed' = 1
          /\ OpFamily(opc') = 53248 /\ I + OpN(opc') <= MemSize )
        => /\ cyc' # "panic"
           /\ \A c \in SpriteCells(opc', v, I, mem) : c < DispSize ]_vars

\* The disp indexes of the set bits of sprite row r of the draw o.
RowCells(o, w, i, memory, r) ==
    { w[OpX(o)] + b + (w[OpY(o)] + r) * DispWidth :
        b \in { c \in 0..7 : (At(memory, i + r) \div (2 ^ (7 - c))) % 2 = 1 } }

\* The addresses of mem the handler of instruction o uses, with registers w
\* and index register i: setBCD's three stores, regLoad's X + 1 reads, and
\* the sprite rows draw reads, which end with the first row that it cannot
\* read or that has a set bit outside disp.
HandlerAddresses(o, w, i, memory) ==
    CASE OpFamily(o) = 61440 /\ OpNN(o) = 51  -> { i + k : k \in 0..2 }
      [] OpFamily(o) = 61440 /\ OpNN(o) = 101 -> { i + k : k \in 0..OpX(o) }
      [] OpFamily(o) = 53248 ->
            { i + r : r \in { q \in 0..(OpN(o) - 1) :
                \A p \in 0..(q - 1) :
                    /\ i + p < MemSize
                    /\ \A c \in RowCells(o, w, i, memory, p) : c < DispSize } }
      [] OTHER -> {}

\* C34: in every state reachable from reset by a Load that succeeded (a ROM
\* of at most 3584 bytes) and Cycle calls, every address of mem a Cycle uses
\* is in 0..4095: the fetch at pc and pc + 1, and the addresses of the
\* handler it runs.
C34_MemoryAccessInRange ==
    [][ ncycles' = ncycles + 1
        => /\ pc < MemSize /\ U16(pc + 1) < MemSize
           /\ executed' = 1
                  => \A a \in HandlerAddresses(opc', v, I, mem) : a < MemSize ]_vars

\* C35: a Cycle that returns an error leaves the registers, I, pc, sp, the
\* stack, mem, disp, both timers and the keys as they were at the call; it
\* does not service the timers, even with a tick waiting, which it leaves
\* waiting; and it sends neither a draw nor a beep signal.
C35_FailedCycleChangesNothing ==
    [][ ( /\ ncycles' = ncycles + 1
          /\ cyc' = "idle" /\ ret' # Nil /\ ret' # NoReturn )
        => /\ UNCHANGED << v, I, pc, sp, stack, mem, disp, delayTimer,
                          soundTimer, keys >>
           /\ serviced' = 0 /\ clock' = clock
           /\ UNCHANGED << drawsDone, drawsRecv, beepsRecv, beepsDue >> ]_vars

\* C35's case: 00E0 failed as the third instruction with a tick waiting and
\* the delay timer, set to 3, still at 3.
C35_Witness ==
    /\ Failed /\ opc = 224 /\ ncycles = 3 /\ pc = ProgStart + 4
    /\ clock = 1 /\ serviced = 0 /\ delayTimer = 3 /\ v[0] = 3

\* C37: from the Handler's receipt of a draw signal until its draw() has
\* returned, having read all 2048 cells through PixelSet, disp stays as the
\* draw instruction left it: no step of the VM changes it meanwhile.
C37_FrameStableWhileRendered ==
    [][ (hnd = "draw" /\ hnd' = "draw") => disp' = disp ]_vars

\* C38: in the earlier main package's drawDisp the guard skips every pixel
\* whose index lies outside the framebuffer, so for every Vx, Vy and N disp
\* is never indexed at or beyond 2048: drawDisp, its sprite inside memory,
\* never panics.
C38_DrawDispGuarded ==
    (chip8.out = "panic") => (chip8.c.I + OpN(chip8.c.opc) > MemSize)

====
